---- MODULE Spec2Model ----
(***************************************************************************)
(* Model of update_parts.py: the balanced-block scanner, the value        *)
(* normaliser (voltage extraction, value canonicalisation, numeric sort   *)
(* key), the per-project scan and the merge into the master inventory.    *)
(*                                                                         *)
(* Text is a sequence of one-character strings.  Indices of the block     *)
(* scanner are Python's (0-based); At(text, i) is text[i].                *)
(***************************************************************************)
EXTENDS Integers, Sequences, FiniteSets, TLC

VARIABLES
  pc,               \* position of the run within the component under study
  text,             \* get_balanced_block: the text scanned
  start_index,      \* get_balanced_block: where the scan starts
  block_end,        \* get_balanced_block: the index returned
  value_str,        \* normaliser: the raw value string
  component_type,   \* normaliser: the designator type
  cleaned_value,    \* extract_voltage: first element of the result
  voltage,          \* extract_voltage: second element of the result
  normalized,       \* normalize_value(value_str, component_type)
  renormalized,     \* normalize_value(normalized, component_type)
  sort_key_raw,     \* parse_value_to_float(value_str)
  sort_key_norm,    \* parse_value_to_float(normalized)
  sch_files,        \* scan: the sheets in the order os.listdir yields them
  file_idx,         \* scan: number of sheets already scanned
  latest_mod_time,  \* scan: newest modification time seen so far
  extracted_parts,  \* scan: MPN -> part_data
  warnings,         \* scan: the consistency warnings printed
  master_data,      \* merge: the inventory, MPN -> record
  new_data,         \* merge: the incoming records, in iteration order
  changes,          \* merge: the change log returned
  errors,           \* merge: the conflict log returned
  runs              \* merge: number of merges done

vars == <<pc, text, start_index, block_end, value_str, component_type,
          cleaned_value, voltage, normalized, renormalized, sort_key_raw,
          sort_key_norm, sch_files, file_idx, latest_mod_time,
          extracted_parts, warnings, master_data, new_data, changes, errors,
          runs>>

blockVars == <<text, start_index, block_end>>
valueVars == <<value_str, component_type, cleaned_value, voltage, normalized,
               renormalized, sort_key_raw, sort_key_norm>>
scanVars  == <<sch_files, file_idx, latest_mod_time, extracted_parts, warnings>>
mergeVars == <<master_data, new_data, changes, errors, runs>>

-----------------------------------------------------------------------------
(* Bounds of the model.                                                    *)

MaxTextLen == 5     \* longest text handed to get_balanced_block
MaxVoltLen == 5     \* longest value string handed to extract_voltage
MaxTokens  == 3     \* most tokens concatenated into a value for normalize_value
MaxFiles   == 2     \* most sheets in the scanned project folder
MaxRuns    == 2     \* most merges in a row

-----------------------------------------------------------------------------
(* Strings.                                                                *)

EmptyStr == << >>

At(s, i) == s[i + 1]

Digits == {"0", "1", "2", "3", "4", "5", "6", "7", "8", "9"}

\* What \s and str.strip()/str.split() treat as white space.
WhiteSpace == {" ", "\t", "\n"}

UpperCase == <<"A", "B", "C", "D", "E", "F", "G", "H", "I", "J", "K", "L", "M",
               "N", "O", "P", "Q", "R", "S", "T", "U", "V", "W", "X", "Y", "Z",
               "Ω">>
LowerCase == <<"a", "b", "c", "d", "e", "f", "g", "h", "i", "j", "k", "l", "m",
               "n", "o", "p", "q", "r", "s", "t", "u", "v", "w", "x", "y", "z",
               "ω">>

\* Case folding of one character (re.IGNORECASE).
Lower(c) ==
  IF \E i \in 1..Len(UpperCase) : UpperCase[i] = c
  THEN LowerCase[CHOOSE i \in 1..Len(UpperCase) : UpperCase[i] = c]
  ELSE c

LowerStr(s) == [i \in 1..Len(s) |-> Lower(s[i])]

\* All strings over alphabet A of length at most n.
StringsUpTo(A, n) == UNION {[1..k -> A] : k \in 0..n}

\* First position j >= i (1-based) that is past the run of Class characters
\* starting at i.
RunEnd(s, i, Class) ==
  CHOOSE j \in i..(Len(s) + 1) :
    /\ \A k \in i..(j - 1) : s[k] \in Class
    /\ (j = Len(s) + 1 \/ s[j] \notin Class)

\* str.strip()
Strip(s) ==
  IF \A k \in 1..Len(s) : s[k] \in WhiteSpace THEN EmptyStr
  ELSE LET a == CHOOSE i \in 1..Len(s) :
                  s[i] \notin WhiteSpace /\ \A k \in 1..(i - 1) : s[k] \in WhiteSpace
           b == CHOOSE i \in 1..Len(s) :
                  s[i] \notin WhiteSpace /\ \A k \in (i + 1)..Len(s) : s[k] \in WhiteSpace
       IN SubSeq(s, a, b)

\* re.sub(r'\s+', ' ', s)
RECURSIVE CollapseFrom(_, _)
CollapseFrom(s, i) ==
  IF i > Len(s) THEN EmptyStr
  ELSE IF s[i] \in WhiteSpace
       THEN <<" ">> \o CollapseFrom(s, RunEnd(s, i, WhiteSpace))
       ELSE <<s[i]>> \o CollapseFrom(s, i + 1)

CollapseSpaces(s) == CollapseFrom(s, 1)

\* str.split(): the maximal runs of non-white-space characters.
RECURSIVE SplitFrom(_, _)
SplitFrom(s, i) ==
  IF i > Len(s) THEN << >>
  ELSE IF s[i] \in WhiteSpace THEN SplitFrom(s, RunEnd(s, i, WhiteSpace))
  ELSE LET j == CHOOSE e \in i..(Len(s) + 1) :
                  /\ \A k \in i..(e - 1) : s[k] \notin WhiteSpace
                  /\ (e = Len(s) + 1 \/ s[e] \in WhiteSpace)
       IN <<SubSeq(s, i, j - 1)>> \o SplitFrom(s, j)

Split(s) == SplitFrom(s, 1)

\* ' '.join(parts)
RECURSIVE JoinSpace(_)
JoinSpace(parts) ==
  IF Len(parts) = 0 THEN EmptyStr
  ELSE IF Len(parts) = 1 THEN parts[1]
  ELSE parts[1] \o <<" ">> \o JoinSpace(Tail(parts))

\* Whether sub occurs in s as a contiguous substring.
Contains(s, sub) ==
  \E i \in 1..(Len(s) - Len(sub) + 1) : SubSeq(s, i, i + Len(sub) - 1) = sub

-----------------------------------------------------------------------------
(* get_balanced_block                                                      *)

\* The for loop of get_balanced_block from index i on, with the loop's state.
RECURSIVE ScanBlock(_, _, _, _)
ScanBlock(txt, i, depth, in_string) ==
  IF i >= Len(txt) THEN Len(txt)
  ELSE LET char == At(txt, i) IN
    IF char = "\"" /\ (i = 0 \/ At(txt, i - 1) # "\\")
    THEN ScanBlock(txt, i + 1, depth, ~in_string)
    ELSE IF in_string THEN ScanBlock(txt, i + 1, depth, in_string)
    ELSE IF char = "(" THEN ScanBlock(txt, i + 1, depth + 1, in_string)
    ELSE IF char = ")"
         THEN IF depth - 1 = 0 THEN i
              ELSE ScanBlock(txt, i + 1, depth - 1, in_string)
    ELSE ScanBlock(txt, i + 1, depth, in_string)

\* A scanner that forgets the escape test: every quote toggles the literal.
RECURSIVE ScanBlockNoEscape(_, _, _, _)
ScanBlockNoEscape(txt, i, depth, in_string) ==
  IF i >= Len(txt) THEN Len(txt)
  ELSE LET char == At(txt, i) IN
    IF char = "\"" THEN ScanBlockNoEscape(txt, i + 1, depth, ~in_string)
    ELSE IF in_string THEN ScanBlockNoEscape(txt, i + 1, depth, in_string)
    ELSE IF char = "(" THEN ScanBlockNoEscape(txt, i + 1, depth + 1, in_string)
    ELSE IF char = ")"
         THEN IF depth - 1 = 0 THEN i
              ELSE ScanBlockNoEscape(txt, i + 1, depth - 1, in_string)
    ELSE ScanBlockNoEscape(txt, i + 1, depth, in_string)

get_balanced_block_noescape(txt, start) == ScanBlockNoEscape(txt, start, 0, FALSE)

get_balanced_block(txt, start) == ScanBlock(txt, start, 0, FALSE)

BlockAlphabet == {"(", ")", "\"", "\\", "a"}

IdleBlock == text = EmptyStr /\ start_index = 0 /\ block_end = -1
IdleValue ==
  /\ value_str = EmptyStr /\ component_type = EmptyStr /\ cleaned_value = EmptyStr
  /\ voltage = EmptyStr /\ normalized = EmptyStr /\ renormalized = EmptyStr
  /\ sort_key_raw = "none" /\ sort_key_norm = "none"
IdleScan ==
  /\ sch_files = << >> /\ file_idx = 0 /\ latest_mod_time = 0
  /\ extracted_parts = << >> /\ warnings = << >>
IdleMerge ==
  /\ master_data = << >> /\ new_data = << >> /\ changes = << >>
  /\ errors = << >> /\ runs = 0

\* The callers hand in the index of an opening parenthesis (the result of
\* content.find('(lib_symbols') or of a match of r'\(symbol').
InitBlock ==
  /\ pc = "block_input"
  /\ text \in StringsUpTo(BlockAlphabet, MaxTextLen)
  /\ start_index \in 0..(MaxTextLen - 1)
  /\ start_index < Len(text)
  /\ At(text, start_index) = "("
  /\ block_end = -1
  /\ IdleValue /\ IdleScan /\ IdleMerge

GetBalancedBlock ==
  /\ pc = "block_input"
  /\ block_end' = get_balanced_block(text, start_index)
  /\ pc' = "block_done"
  /\ UNCHANGED <<text, start_index, valueVars, scanVars, mergeVars>>

NextBlock == GetBalancedBlock

SpecBlock == InitBlock /\ [][NextBlock]_vars

-----------------------------------------------------------------------------
(* C4: the block scanner against a declarative reading of its contract.   *)

\* An unescaped quote at Python index k.
QuoteAt(txt, k) == At(txt, k) = "\"" /\ (k = 0 \/ At(txt, k - 1) # "\\")

\* Inside a string literal at index k: an odd number of toggling quotes
\* between the start and k.
InLiteral(txt, start, k) ==
  Cardinality({j \in start..(k - 1) : QuoteAt(txt, j)}) % 2 = 1

Counted(txt, start, k, c) ==
  At(txt, k) = c /\ ~QuoteAt(txt, k) /\ ~InLiteral(txt, start, k)

\* Nesting depth after the character at index i has been read.
DepthAfter(txt, start, i) ==
  Cardinality({k \in start..i : Counted(txt, start, k, "(")})
    - Cardinality({k \in start..i : Counted(txt, start, k, ")")})

ClosingIndices(txt, start) ==
  {i \in start..(Len(txt) - 1) : DepthAfter(txt, start, i) = 0}

\* C4: get_balanced_block returns the smallest index at or after the start at
\* which the nesting depth, counted outside string literals, is back to zero,
\* and the length of the text when there is no such index.
C4_BlockEnd ==
  pc = "block_done" =>
    LET closing == ClosingIndices(text, start_index) IN
      IF closing = {} THEN block_end = Len(text)
      ELSE /\ block_end \in closing
           /\ \A i \in closing : block_end <= i

\* A block closed after a parenthesis that sits inside a literal holding an
\* escaped quote.
C4_Witness ==
  /\ pc = "block_done"
  /\ block_end < Len(text)
  /\ \E k \in start_index..block_end :
       At(text, k) = "\"" /\ ~QuoteAt(text, k)

\* A truncated block: the scan runs to the end of the text.
C4_WitnessTruncated ==
  pc = "block_done" /\ block_end = Len(text) /\ Len(text) = MaxTextLen

-----------------------------------------------------------------------------
(* extract_voltage                                                         *)

\* The token \d+\.?\d*V with its first digit at position d (1-based): the
\* position after the V, or 0 when there is no such token at d.
VoltTokenEnd(s, d) ==
  LET e1 == RunEnd(s, d, Digits)
      e2 == IF e1 <= Len(s) /\ s[e1] = "." THEN e1 + 1 ELSE e1
      e3 == RunEnd(s, e2, Digits)
  IN IF d <= Len(s) /\ e1 > d /\ e3 <= Len(s) /\ s[e3] = "V" THEN e3 + 1 ELSE 0

\* A match of voltage_pattern = \s*(\d+\.?\d*V)\s* that starts at position p.
VoltMatchAt(s, p) ==
  LET d == RunEnd(s, p, WhiteSpace) IN VoltTokenEnd(s, d) # 0

\* The match that starts at p: where group 1 starts and ends, and where the
\* whole match ends (all three exclusive ends / 1-based starts).
VoltMatch(s, p) ==
  LET d == RunEnd(s, p, WhiteSpace)
      t == VoltTokenEnd(s, d)
  IN [tok_start |-> d, tok_end |-> t, end |-> RunEnd(s, t, WhiteSpace)]

\* Positions at or after from where a match starts.
VoltMatchStarts(s, from) == {p \in from..Len(s) : VoltMatchAt(s, p)}

Min(S) == CHOOSE x \in S : \A y \in S : x <= y
Max(S) == CHOOSE x \in S : \A y \in S : x >= y

\* re.sub(voltage_pattern, ' ', s, count) from position pos on; count < 0
\* replaces every match, as re.sub does when no count is given.
RECURSIVE VoltSubFrom(_, _, _)
VoltSubFrom(s, pos, count) ==
  IF count = 0 \/ VoltMatchStarts(s, pos) = {} THEN SubSeq(s, pos, Len(s))
  ELSE LET p == Min(VoltMatchStarts(s, pos))
           m == VoltMatch(s, p)
       IN SubSeq(s, pos, p - 1) \o <<" ">> \o VoltSubFrom(s, m.end, count - 1)

\* The result pair (cleaned value, voltage) of extract_voltage.
extract_voltage(v) ==
  IF v = EmptyStr THEN <<v, EmptyStr>>
  ELSE IF VoltMatchStarts(v, 1) # {}
       THEN LET m == VoltMatch(v, Min(VoltMatchStarts(v, 1)))
            IN <<CollapseSpaces(Strip(VoltSubFrom(v, 1, -1))),
                 SubSeq(v, m.tok_start, m.tok_end - 1)>>
       ELSE <<v, EmptyStr>>

VoltAlphabet == {"1", "6", ".", "V", " ", "n"}

InitVoltage ==
  /\ pc = "volt_input"
  /\ value_str \in StringsUpTo(VoltAlphabet, MaxVoltLen)
  /\ component_type = <<"C">>
  /\ cleaned_value = EmptyStr /\ voltage = EmptyStr
  /\ normalized = EmptyStr /\ renormalized = EmptyStr
  /\ sort_key_raw = "none" /\ sort_key_norm = "none"
  /\ IdleBlock /\ IdleScan /\ IdleMerge

ExtractVoltage ==
  /\ pc = "volt_input"
  /\ cleaned_value' = extract_voltage(value_str)[1]
  /\ voltage' = extract_voltage(value_str)[2]
  /\ pc' = "volt_done"
  /\ UNCHANGED <<value_str, component_type, normalized, renormalized,
                 sort_key_raw, sort_key_norm, blockVars, scanVars, mergeVars>>

NextVoltage == ExtractVoltage

SpecVoltage == InitVoltage /\ [][NextVoltage]_vars

-----------------------------------------------------------------------------
(* C5: what extract_voltage removes.                                       *)

\* The value with its first voltage match alone replaced, then stripped and
\* collapsed as the function does.
FirstVoltageRemoved(v) == CollapseSpaces(Strip(VoltSubFrom(v, 1, 1)))

\* The voltage tokens of every match after the first one.
RECURSIVE VoltTokensFrom(_, _)
VoltTokensFrom(s, pos) ==
  IF VoltMatchStarts(s, pos) = {} THEN {}
  ELSE LET m == VoltMatch(s, Min(VoltMatchStarts(s, pos)))
       IN {SubSeq(s, m.tok_start, m.tok_end - 1)} \cup VoltTokensFrom(s, m.end)

LaterVoltageTokens(v) ==
  IF VoltMatchStarts(v, 1) = {} THEN {}
  ELSE VoltTokensFrom(v, VoltMatch(v, Min(VoltMatchStarts(v, 1))).end)

\* C5: only the first voltage match is removed from the value: the voltage
\* returned is the first match, the remainder is the value without that one
\* match and still contains every later match; without a match the value comes
\* back unchanged with an empty voltage.
C5_OnlyFirstRemoved ==
  pc = "volt_done" =>
    IF VoltMatchStarts(value_str, 1) # {}
    THEN /\ voltage = LET m == VoltMatch(value_str, Min(VoltMatchStarts(value_str, 1)))
                      IN SubSeq(value_str, m.tok_start, m.tok_end - 1)
         /\ cleaned_value = FirstVoltageRemoved(value_str)
         /\ \A t \in LaterVoltageTokens(value_str) : Contains(cleaned_value, t)
    ELSE cleaned_value = value_str /\ voltage = EmptyStr

-----------------------------------------------------------------------------
(* normalize_value                                                         *)

VALUE_PARSE_TYPES ==
  { <<"R">>, <<"C">>, <<"L">>, <<"D">>, <<"B", "T">>, <<"F">>, <<"F", "B">>,
    <<"Y">>, <<"Z">> }

\* The keys of the multipliers table, i.e. the class [pnuµmkKMG].
Multipliers == {"p", "n", "u", "µ", "m", "k", "K", "M", "G"}

\* The letter a multiplier is written with on output.
MultiplierLetter(mult) ==
  IF mult = "µ" THEN "u" ELSE IF mult = "K" THEN "k" ELSE mult

units_to_strip ==
  << <<"Ω">>, <<"O", "h", "m">>, <<"o", "h", "m", "s">>, <<"o", "h", "m">>,
     <<"F">>, <<"u", "F">>, <<"n", "F">>, <<"p", "F">>,
     <<"H">>, <<"u", "H">>, <<"n", "H">>, <<"m", "H">>,
     <<"H", "z">>, <<"k", "H", "z">>, <<"M", "H", "z">> >>

\* re.sub(re.escape(unit) + r'$', '', w, flags=re.IGNORECASE)
StripUnit(w, unit) ==
  IF /\ Len(w) >= Len(unit)
     /\ LowerStr(SubSeq(w, Len(w) - Len(unit) + 1, Len(w))) = LowerStr(unit)
  THEN SubSeq(w, 1, Len(w) - Len(unit))
  ELSE w

\* The loop over units_to_strip, from the k-th unit on.
RECURSIVE StripUnitsFrom(_, _)
StripUnitsFrom(w, k) ==
  IF k > Len(units_to_strip) THEN w
  ELSE StripUnitsFrom(StripUnit(w, units_to_strip[k]), k + 1)

\* A full match of \d+
AllDigits(s) == Len(s) >= 1 /\ \A i \in 1..Len(s) : s[i] \in Digits

\* A full match of \d+\.?\d*
IsNumber(s) ==
  /\ Len(s) >= 1
  /\ s[1] \in Digits
  /\ \A i \in 1..Len(s) : s[i] \in Digits \cup {"."}
  /\ Cardinality({i \in 1..Len(s) : s[i] = "."}) <= 1

Front(s) == SubSeq(s, 1, Len(s) - 1)

\* ^(\d+\.?\d*)([pnuµmkKMG])$
Match1(w) == Len(w) >= 2 /\ w[Len(w)] \in Multipliers /\ IsNumber(Front(w))

\* ^(\d+)([pnuµmkKMG])(\d+)$ : the position of the multiplier, as a set.
Match2At(w) ==
  {i \in 2..(Len(w) - 1) :
     /\ w[i] \in Multipliers
     /\ AllDigits(SubSeq(w, 1, i - 1))
     /\ AllDigits(SubSeq(w, i + 1, Len(w)))}

\* ^(\d+)R(\d*)$ with re.IGNORECASE : the position of the R, as a set.
Match3At(w) ==
  {i \in 2..Len(w) :
     /\ Lower(w[i]) = "r"
     /\ AllDigits(SubSeq(w, 1, i - 1))
     /\ (i = Len(w) \/ AllDigits(SubSeq(w, i + 1, Len(w))))}

\* f"{normalized} {suffix}".strip() if suffix else normalized
WithSuffix(norm, suffix) ==
  IF suffix # EmptyStr THEN Strip(norm \o <<" ">> \o suffix) ELSE norm

\* Format 3: the normalized text of a resistor shorthand.
Format3(main, dec) ==
  IF dec # EmptyStr THEN main \o <<".">> \o dec \o <<"R">> ELSE main \o <<"R">>

\* Format 2 that forgets to rewrite the multiplier letter (4K7 -> 4.7K).
Format2RawLetter(main, mult, dec) == main \o <<".">> \o dec \o <<mult>>

\* Format 2: number, multiplier, number (4k7 -> 4.7k).
Format2(main, mult, dec) ==
  main \o <<".">> \o dec \o <<MultiplierLetter(mult)>>

normalize_value(v, ctype) ==
  IF v = EmptyStr \/ ctype \notin VALUE_PARSE_TYPES THEN v
  ELSE
    LET vs    == CollapseSpaces(Strip(v))
        parts == Split(vs)
    IN IF Len(parts) = 0 THEN vs
       ELSE
         LET numeric_part == parts[1]
             suffix       == IF Len(parts) > 1 THEN JoinSpace(Tail(parts)) ELSE EmptyStr
             working_str  == StripUnitsFrom(numeric_part, 1)
         IN IF Match1(working_str)
            THEN WithSuffix(Front(working_str)
                              \o <<MultiplierLetter(working_str[Len(working_str)])>>,
                            suffix)
            ELSE IF Match2At(working_str) # {}
            THEN LET i == CHOOSE j \in Match2At(working_str) : TRUE
                 IN WithSuffix(Format2(SubSeq(working_str, 1, i - 1), working_str[i],
                                       SubSeq(working_str, i + 1, Len(working_str))),
                               suffix)
            ELSE IF Match3At(working_str) # {}
            THEN LET i == CHOOSE j \in Match3At(working_str) : TRUE
                 IN WithSuffix(Format3(SubSeq(working_str, 1, i - 1),
                                       SubSeq(working_str, i + 1, Len(working_str))),
                               suffix)
            ELSE IF IsNumber(working_str)
            THEN WithSuffix(working_str, suffix)
            ELSE vs

-----------------------------------------------------------------------------
(* parse_value_to_float                                                    *)

\* A float is modelled exactly, as mantissa * 10^exp with no trailing zero
\* in the mantissa; 0.0 is [mant |-> 0, exp |-> 0].
Zero == [mant |-> 0, exp |-> 0]

RECURSIVE Canonical(_)
Canonical(x) ==
  IF x.mant = 0 THEN Zero
  ELSE IF x.mant % 10 = 0 THEN Canonical([mant |-> x.mant \div 10, exp |-> x.exp + 1])
  ELSE x

DigitValue(c) ==
  CASE c = "0" -> 0 [] c = "1" -> 1 [] c = "2" -> 2 [] c = "3" -> 3 [] c = "4" -> 4
    [] c = "5" -> 5 [] c = "6" -> 6 [] c = "7" -> 7 [] c = "8" -> 8 [] c = "9" -> 9

RECURSIVE DigitsToInt(_)
DigitsToInt(s) ==
  IF Len(s) = 0 THEN 0 ELSE 10 * DigitsToInt(Front(s)) + DigitValue(s[Len(s)])

\* Whether float(num) succeeds for a string of digits and dots.
FloatParses(num) ==
  /\ Cardinality({i \in 1..Len(num) : num[i] = "."}) <= 1
  /\ \E i \in 1..Len(num) : num[i] \in Digits

\* float(num) for such a string.
ToFloat(num) ==
  LET dots == {i \in 1..Len(num) : num[i] = "."}
      frac == IF dots = {} THEN 0 ELSE Len(num) - Max(dots)
      digs == SelectSeq(num, LAMBDA c : c # ".")
  IN Canonical([mant |-> DigitsToInt(digs), exp |-> 0 - frac])

\* The multipliers table of parse_value_to_float, as a power of ten.
MultiplierExp(mult) ==
  CASE mult = "p" -> -12 [] mult = "n" -> -9 [] mult = "u" -> -6 [] mult = "µ" -> -6
    [] mult = "m" -> -3 [] mult = "k" -> 3 [] mult = "K" -> 3 [] mult = "M" -> 6
    [] mult = "G" -> 9

Scale(x, mult) == Canonical([mant |-> x.mant, exp |-> x.exp + MultiplierExp(mult)])

IsDigitsAndDots(s) == Len(s) >= 1 /\ \A i \in 1..Len(s) : s[i] \in Digits \cup {"."}

parse_value_to_float(v) ==
  IF v = EmptyStr THEN Zero
  ELSE IF Split(v) = << >> THEN "IndexError"
  ELSE
    LET s == Split(v)[1] IN
      \* ^([0-9\.]+)([pnuµmkKMG]?)$
      IF IsDigitsAndDots(s) /\ FloatParses(s) THEN ToFloat(s)
      ELSE IF /\ Len(s) >= 2 /\ s[Len(s)] \in Multipliers
              /\ IsDigitsAndDots(Front(s)) /\ FloatParses(Front(s))
      THEN Scale(ToFloat(Front(s)), s[Len(s)])
      \* ^(\d+)([pnuµmkKMG])(\d+)$
      ELSE IF Match2At(s) # {}
      THEN LET i == CHOOSE j \in Match2At(s) : TRUE
           IN Scale(ToFloat(SubSeq(s, 1, i - 1) \o <<".">> \o SubSeq(s, i + 1, Len(s))),
                    s[i])
      \* ^(\d+)R(\d*)$, re.IGNORECASE
      ELSE IF Match3At(s) # {}
      THEN LET i == CHOOSE j \in Match3At(s) : TRUE
           IN IF i < Len(s)
              THEN ToFloat(SubSeq(s, 1, i - 1) \o <<".">> \o SubSeq(s, i + 1, Len(s)))
              ELSE ToFloat(SubSeq(s, 1, i - 1))
      ELSE Zero

\* The value component of the sort key of main() for a row.
ValueSortKey(ctype, v) ==
  IF ctype \in VALUE_PARSE_TYPES THEN parse_value_to_float(v) ELSE Zero

-----------------------------------------------------------------------------
(* The normaliser under test: values built from tokens.                    *)

\* The pieces a value string is put together from: digits, the decimal
\* point, multiplier letters, the resistor R, unit words and a space.
ValueTokens ==
  { <<"4">>, <<"7">>, <<".">>, <<"k">>, <<"K">>, <<"µ">>, <<"R">>, <<"r">>,
    <<"F">>, <<"H", "z">>, <<"O", "h", "m">>, <<" ">> }

RECURSIVE Flatten(_)
Flatten(ts) == IF Len(ts) = 0 THEN EmptyStr ELSE ts[1] \o Flatten(Tail(ts))

ValueStrings == {Flatten(ts) : ts \in StringsUpTo(ValueTokens, MaxTokens)}

\* The designator types: the value-bearing ones and one that is not.
ComponentTypes == VALUE_PARSE_TYPES \cup { <<"U">> }

InitNormalize ==
  /\ pc = "norm_input"
  /\ value_str \in ValueStrings
  /\ component_type = EmptyStr
  /\ cleaned_value = EmptyStr /\ voltage = EmptyStr
  /\ normalized = EmptyStr /\ renormalized = EmptyStr
  /\ sort_key_raw = "none" /\ sort_key_norm = "none"
  /\ IdleBlock /\ IdleScan /\ IdleMerge

\* val = normalize_value(val, comp_type), as scan_project_folder calls it.
NormalizeValue ==
  /\ pc = "norm_input"
  /\ \E t \in ComponentTypes :
       /\ component_type' = t
       /\ normalized' = normalize_value(value_str, t)
  /\ pc' = "normalized"
  /\ UNCHANGED <<value_str, cleaned_value, voltage, renormalized, sort_key_raw,
                 sort_key_norm, blockVars, scanVars, mergeVars>>

\* The stored value is normalised once more (the next scan of the same part).
NormalizeAgain ==
  /\ pc = "normalized"
  /\ renormalized' = normalize_value(normalized, component_type)
  /\ pc' = "renormalized"
  /\ UNCHANGED <<value_str, component_type, cleaned_value, voltage, normalized,
                 sort_key_raw, sort_key_norm, blockVars, scanVars, mergeVars>>

\* The sort key of main() for the stored value, and that of the raw value.
ParseValueToFloat ==
  /\ pc = "normalized"
  /\ sort_key_norm' = ValueSortKey(component_type, normalized)
  /\ sort_key_raw' = parse_value_to_float(value_str)
  /\ pc' = "keyed"
  /\ UNCHANGED <<value_str, component_type, cleaned_value, voltage, normalized,
                 renormalized, blockVars, scanVars, mergeVars>>

NextNormalize == NormalizeValue \/ NormalizeAgain \/ ParseValueToFloat

SpecNormalize == InitNormalize /\ [][NextNormalize]_vars

-----------------------------------------------------------------------------
(* C6, C10: the normaliser's algebra.                                      *)

\* C6: normalize_value is idempotent for every value-bearing type:
\* normalising a normalised value changes nothing.
C6_NormalizeIdempotent ==
  (pc = "renormalized" /\ component_type \in VALUE_PARSE_TYPES) =>
    renormalized = normalized

\* A middle-multiplier value that normalisation rewrote, normalised again.
C6_Witness ==
  /\ pc = "renormalized"
  /\ component_type \in VALUE_PARSE_TYPES
  /\ Match2At(value_str) # {}
  /\ normalized # value_str

\* The value is in format a (<number><mult>), b (<digits><mult><digits>) or
\* c (<digits>R<digits?>).
InFormatABC(v) == Match1(v) \/ Match2At(v) # {} \/ Match3At(v) # {}

\* C10: for a value in format a, b or c and a value-bearing type, the sort
\* key of the normalised value equals the sort key of the value itself.
C10_SortKeyPreserved ==
  (pc = "keyed" /\ component_type \in VALUE_PARSE_TYPES /\ InFormatABC(value_str)) =>
    sort_key_norm = sort_key_raw

-----------------------------------------------------------------------------
(* scan_project_folder                                                     *)

\* clean_field_value: ~ and - are KiCad's placeholders for an empty field.
clean_field_value(v) ==
  LET cleaned == Strip(v) IN
    IF cleaned \in { <<"~">>, <<"-">> } THEN EmptyStr ELSE cleaned

Letters == {UpperCase[i] : i \in 1..26} \cup {LowerCase[i] : i \in 1..26}

Upper(c) ==
  IF \E i \in 1..26 : LowerCase[i] = c
  THEN UpperCase[CHOOSE i \in 1..26 : LowerCase[i] = c]
  ELSE c

\* get_designator_type: the leading letters, upper-cased, or ZZ.
get_designator_type(refdes) ==
  LET e == RunEnd(refdes, 1, Letters) IN
    IF e > 1 THEN [i \in 1..(e - 1) |-> Upper(refdes[i])] ELSE <<"Z", "Z">>

\* Column names of a part record.
RecordFields ==
  {"Type", "Value", "Voltage", "Tolerance", "Extra", "Footprint", "Stock",
   "Manufacturer", "MPN", "Digikey PN", "Mouser PN", "Description", "Symbol",
   "Datasheet", "Projects", "Last Used"}

\* The calendar days of the model as ISO dates, oldest first.
DayStrings ==
  << <<"2", "0", "2", "4", "-", "0", "9", "-", "3", "0">>,
     <<"2", "0", "2", "4", "-", "1", "0", "-", "0", "2">> >>

\* datetime.now().strftime("%Y-%m-%d")
Today == <<"2", "0", "2", "5", "-", "0", "2", "-", "0", "1">>

\* datetime.fromtimestamp(t).strftime("%Y-%m-%d"): two timestamps a day.
FormatDate(t) == DayStrings[(t + 1) \div 2]

\* Modification times a sheet can have: 1 and 2 fall on the same day.
ModTimes == {1, 2, 3}

\* The name of the scanned project folder.
project_name == "amp"

\* The one element of a singleton set.  Written Only({F(x) : x \in {e}}),
\* it evaluates e once and hands F its value.
Only(S) == CHOOSE y \in S : TRUE

\* The block under "Process value and voltage for applicable component
\* types", for cleaned fields: the value and voltage the part is stored with.
ProcessCleaned(val, volt, comp_type) ==
  IF comp_type \in VALUE_PARSE_TYPES
  THEN Only({ [Value   |-> normalize_value(ex[1], comp_type),
               Voltage |-> IF volt = EmptyStr /\ val # EmptyStr /\ ex[2] # EmptyStr
                           THEN ex[2] ELSE volt] :
              ex \in {IF val # EmptyStr THEN extract_voltage(val)
                      ELSE <<val, EmptyStr>>} })
  ELSE [Value |-> val, Voltage |-> volt]

ProcessedValue(props) ==
  Only({ ProcessCleaned(val, volt, comp_type) :
           val \in {clean_field_value(props["Value"])},
           volt \in {clean_field_value(props["Voltage"])},
           comp_type \in {get_designator_type(props["Reference"])} })

\* The part_data dictionary built for one component.
PartDataOf(props, pv, date_str) ==
  [f \in RecordFields |->
        CASE f = "Type"         -> get_designator_type(props["Reference"])
          [] f = "Value"        -> pv.Value
          [] f = "Voltage"      -> pv.Voltage
          [] f = "Tolerance"    -> clean_field_value(props["Tolerance"])
          [] f = "Extra"        -> clean_field_value(props["Extra"])
          [] f = "Footprint"    -> clean_field_value(props["Footprint"])
          [] f = "Stock"        -> EmptyStr
          [] f = "Manufacturer" -> clean_field_value(props["Manufacturer"])
          [] f = "MPN"          -> clean_field_value(props["MPN"])
          [] f = "Digikey PN"   -> clean_field_value(props["Digikey"])
          [] f = "Mouser PN"    -> clean_field_value(props["Mouser"])
          [] f = "Description"  -> clean_field_value(props["Description"])
          [] f = "Symbol"       -> clean_field_value(props["_lib_id"])
          [] f = "Datasheet"    -> clean_field_value(props["Datasheet"])
          [] f = "Projects"     -> {project_name}
          [] f = "Last Used"    -> date_str]

PartData(props, latest) ==
  Only({ PartDataOf(props, pv, IF latest > 0 THEN FormatDate(latest) ELSE Today) :
           pv \in {ProcessedValue(props)} })

\* A component the scan keeps: it has an MPN and a footprint.
Admitted(props) ==
  /\ clean_field_value(props["MPN"]) # EmptyStr
  /\ clean_field_value(props["Footprint"]) # EmptyStr

\* A scan that lets the latest observation of an MPN replace the kept one.
ScanComponentLastWins(st, props, latest) ==
  IF ~Admitted(props) THEN st
  ELSE LET mpn  == clean_field_value(props["MPN"])
           part == PartData(props, latest)
       IN IF mpn \in DOMAIN st.parts
          THEN LET existing == st.parts[mpn] IN
                 [parts |-> [st.parts EXCEPT ![mpn] = part],
                  warns |-> IF existing["Value"] # part["Value"]
                               \/ existing["Footprint"] # part["Footprint"]
                            THEN Append(st.warns, [mpn |-> mpn, refdes |-> props["Reference"]])
                            ELSE st.warns]
          ELSE [parts |-> (mpn :> part) @@ st.parts, warns |-> st.warns]

\* The body of "for props in found_components" for one component; st holds
\* extracted_parts and the warnings printed so far.
ScanComponent(st, props, latest) ==
  IF ~Admitted(props) THEN st
  ELSE LET mpn  == clean_field_value(props["MPN"])
           part == PartData(props, latest)
       IN IF mpn \in DOMAIN st.parts
          THEN LET existing == st.parts[mpn] IN
                 IF existing["Value"] # part["Value"]
                    \/ existing["Footprint"] # part["Footprint"]
                 THEN [st EXCEPT !.warns =
                         Append(@, [mpn |-> mpn, refdes |-> props["Reference"]])]
                 ELSE st
          ELSE [parts |-> (mpn :> part) @@ st.parts, warns |-> st.warns]

RECURSIVE ScanComponents(_, _, _)
ScanComponents(st, comps, latest) ==
  IF Len(comps) = 0 THEN st
  ELSE ScanComponents(ScanComponent(st, comps[1], latest), Tail(comps), latest)

\* The properties of one component instance, as parse_schematic_file yields
\* them; a missing property reads as the empty string (props.get(key, "")).
Props(ref, mpn, val, volt, fp) ==
  ("Reference" :> ref) @@ ("MPN" :> mpn) @@ ("Value" :> val) @@ ("Voltage" :> volt)
    @@ ("Footprint" :> fp) @@ ("Mouser" :> EmptyStr) @@ ("Digikey" :> EmptyStr)
    @@ ("Manufacturer" :> EmptyStr) @@ ("Tolerance" :> EmptyStr)
    @@ ("Extra" :> EmptyStr) @@ ("Description" :> EmptyStr)
    @@ ("_lib_id" :> <<"D", ":", "R">>) @@ ("Datasheet" :> <<"~">>)

X1 == <<"X", "1">>
X2 == <<"X", "2">>
FP0402 == <<"0", "4", "0", "2">>
FP0603 == <<"0", "6", "0", "3">>

R1_4k7   == Props(<<"R", "1">>, X1, <<"4", "k", "7">>, EmptyStr, FP0402)
R2_4p7k  == Props(<<"R", "2">>, X1, <<"4", ".", "7", "k">>, EmptyStr, FP0402)
R3_10k   == Props(<<"R", "3">>, X1, <<"1", "0", "k">>, EmptyStr, FP0402)
R4_0603  == Props(<<"R", "4">>, X1, <<"4", "k", "7">>, EmptyStr, FP0603)
U1_4k7   == Props(<<"U", "1", "A">>, X1, <<"4", "k", "7">>, EmptyStr, FP0402)
C1_16V   == Props(<<"C", "1">>, X2, <<"1", "0", "0", "n", " ", "1", "6", "V">>,
                  EmptyStr, FP0402)
C2_100n  == Props(<<"c", "2">>, X2, <<"1", "0", "0", "n", "F">>, <<"1", "6", "V">>,
                  <<" ", "0", "4", "0", "2">>)
R5_NoMPN == Props(<<"R", "5">>, <<"~">>, <<"4", "k", "7">>, EmptyStr, FP0402)
R6_NoFP  == Props(<<"R", "6">>, X1, <<"4", "k", "7">>, EmptyStr, <<"-">>)

\* What one sheet can hold: its components in the order the parser yields.
SheetContents ==
  { << >>, <<R1_4k7>>, <<R2_4p7k>>, <<R1_4k7, R3_10k>>, <<U1_4k7, R4_0603>>,
    <<C1_16V, C2_100n>>, <<R5_NoMPN, R6_NoFP>> }

Sheets == [mtime : ModTimes, comps : SheetContents]

InitScan ==
  /\ pc = "scanning"
  /\ sch_files \in StringsUpTo(Sheets, MaxFiles)
  /\ file_idx = 0
  /\ latest_mod_time = 0
  /\ extracted_parts = << >>
  /\ warnings = << >>
  /\ IdleBlock /\ IdleValue /\ IdleMerge

\* One turn of "for sch_file in sch_files".
ScanFile ==
  /\ pc = "scanning"
  /\ file_idx < Len(sch_files)
  /\ LET sheet  == sch_files[file_idx + 1]
         latest == IF sheet.mtime > latest_mod_time THEN sheet.mtime
                   ELSE latest_mod_time
         st     == ScanComponents([parts |-> extracted_parts, warns |-> warnings],
                                  sheet.comps, latest)
     IN /\ latest_mod_time' = latest
        /\ extracted_parts' = st.parts
        /\ warnings' = st.warns
  /\ file_idx' = file_idx + 1
  /\ UNCHANGED <<pc, sch_files, blockVars, valueVars, mergeVars>>

\* return extracted_parts
ScanReturn ==
  /\ pc = "scanning"
  /\ file_idx = Len(sch_files)
  /\ pc' = "scan_done"
  /\ UNCHANGED <<scanVars, blockVars, valueVars, mergeVars>>

NextScan == ScanFile \/ ScanReturn

SpecScan == InitScan /\ [][NextScan]_vars

-----------------------------------------------------------------------------
(* C7, C8: what a project scan keeps.                                      *)

\* The components of the first n sheets, as (sheet, position) pairs.
Observations(n) ==
  UNION {{<<i, j>> : j \in 1..Len(sch_files[i].comps)} : i \in 1..n}

ObsProps(ij) == sch_files[ij[1]].comps[ij[2]]

\* Scan order.
Before(a, b) == a[1] < b[1] \/ (a[1] = b[1] /\ a[2] < b[2])

\* The admitted observations of MPN m among the first n sheets.
Seen(m, n) ==
  {ij \in Observations(n) :
     Admitted(ObsProps(ij)) /\ clean_field_value(ObsProps(ij)["MPN"]) = m}

SeenMPNs(n) ==
  {clean_field_value(ObsProps(ij)["MPN"]) :
     ij \in {o \in Observations(n) : Admitted(ObsProps(o))}}

FirstSeen(m, n) == CHOOSE a \in Seen(m, n) : \A b \in Seen(m, n) : a = b \/ Before(a, b)

\* A later observation disagrees with the kept record of its MPN.
Disagrees(ij, kept) ==
  \/ ProcessedValue(ObsProps(ij)).Value # kept["Value"]
  \/ clean_field_value(ObsProps(ij)["Footprint"]) # kept["Footprint"]

\* The later observations that must have raised a warning.
Warned(n) ==
  {ij \in Observations(n) :
     /\ Admitted(ObsProps(ij))
     /\ LET m == clean_field_value(ObsProps(ij)["MPN"]) IN
          /\ ij # FirstSeen(m, n)
          /\ Disagrees(ij, extracted_parts[m])}

C7_State ==
  pc \in {"scanning", "scan_done"} =>
    /\ DOMAIN extracted_parts = SeenMPNs(file_idx)
    /\ \A m \in SeenMPNs(file_idx) :
         LET first == FirstSeen(m, file_idx) IN
           /\ extracted_parts[m]["Value"] = ProcessedValue(ObsProps(first)).Value
           /\ extracted_parts[m]["Footprint"]
                = clean_field_value(ObsProps(first)["Footprint"])
           /\ extracted_parts[m]["Type"]
                = get_designator_type(ObsProps(first)["Reference"])
    /\ Len(warnings) = Cardinality(Warned(file_idx))
    /\ {warnings[k] : k \in 1..Len(warnings)}
         = {[mpn |-> clean_field_value(ObsProps(ij)["MPN"]),
             refdes |-> ObsProps(ij)["Reference"]] : ij \in Warned(file_idx)}

C7_Step ==
  \A m \in DOMAIN extracted_parts :
    m \in DOMAIN extracted_parts' /\ extracted_parts'[m] = extracted_parts[m]

\* C7: of several observations of one MPN in a project scan the first in
\* scan order is the record kept, later observations never modify it, and a
\* warning is raised for a later observation exactly when its normalised
\* value or its footprint differs from the kept record's.
C7_FirstSeenKept == [](C7_State) /\ [][C7_Step]_vars

\* 4k7 and 4.7k seen for one MPN: one record, value 4.7k, no warning; and in
\* the same scan another MPN that did raise one is not needed for this case.
C7_Witness ==
  /\ pc = "scan_done"
  /\ \E a, b \in Seen(X1, file_idx) :
       /\ Before(a, b)
       /\ ObsProps(a)["Value"] = <<"4", "k", "7">>
       /\ ObsProps(b)["Value"] = <<"4", ".", "7", "k">>
       /\ ObsProps(a)["Footprint"] = ObsProps(b)["Footprint"]
  /\ extracted_parts[X1]["Value"] = <<"4", ".", "7", "k">>
  /\ warnings = << >>

\* Files among the first n in which MPN m was observed.
FilesWith(m, n) == {ij[1] : ij \in Seen(m, n)}

\* C8: the Last Used date of a scanned record is the most recent modification
\* date among the sheets in which the part was observed, whatever the order
\* in which the sheets are listed.
C8_LastUsedNewestObserved ==
  pc = "scan_done" =>
    \A m \in DOMAIN extracted_parts :
      extracted_parts[m]["Last Used"]
        = FormatDate(Max({sch_files[i].mtime : i \in FilesWith(m, file_idx)}))

-----------------------------------------------------------------------------
(* merge_data                                                              *)

\* The columns merge fills when blank.
FillFields ==
  {"Mouser PN", "Digikey PN", "Voltage", "Tolerance", "Manufacturer",
   "Datasheet", "Extra"}

\* The columns merge always takes from the newest scan.
NewestFields == {"Description", "Symbol"}

\* Code point order of the characters of a date.
CharCode(c) == IF c = "-" THEN 45 ELSE 48 + DigitValue(c)

\* a > b for Python strings: the first differing character decides, and a
\* proper prefix is the smaller string.
RECURSIVE StrGreater(_, _)
StrGreater(a, b) ==
  IF Len(a) = 0 THEN FALSE
  ELSE IF Len(b) = 0 THEN TRUE
  ELSE IF a[1] # b[1] THEN CharCode(a[1]) > CharCode(b[1])
  ELSE StrGreater(Tail(a), Tail(b))

\* "if existing['Value'] != new_part['Value'] or existing['Footprint'] != ..."
SpecsDiffer(existing, new_part) ==
  \/ existing["Value"] # new_part["Value"]
  \/ existing["Footprint"] # new_part["Footprint"]

\* A blank-field test that lets a new value replace an old one.
FillsAlways(old, new) == new # EmptyStr

\* "if not existing[f] and new_part[f]"
Fills(old, new) == old = EmptyStr /\ new # EmptyStr

\* A newest-wins test that fires for an unchanged value as well.
TakesNewestAlways(old, new) == new # EmptyStr

\* "if existing[f] != new_part[f] and new_part[f]: ... elif not existing[f]
\* and new_part[f]"
TakesNewest(old, new) ==
  (old # new /\ new # EmptyStr) \/ (old = EmptyStr /\ new # EmptyStr)

\* The existing record after the field updates of a consistent merge.
UpdateFields(existing, new_part) ==
  [f \in RecordFields |->
     IF f \in FillFields /\ Fills(existing[f], new_part[f]) THEN new_part[f]
     ELSE IF f \in NewestFields /\ TakesNewest(existing[f], new_part[f])
     THEN new_part[f]
     ELSE existing[f]]

\* The "updated" flag after the field updates.
Updated(existing, new_part) ==
  \/ \E f \in FillFields : Fills(existing[f], new_part[f])
  \/ \E f \in NewestFields : TakesNewest(existing[f], new_part[f])

\* A project addition that advances the date but forgets the set.
AddProjectDateOnly(rec, new_proj, last_used) ==
  [rec EXCEPT !["Last Used"] = IF StrGreater(last_used, @) THEN last_used ELSE @]

\* existing['Projects'].add(new_proj), and the newer date.
AddProject(rec, new_proj, last_used) ==
  [rec EXCEPT !["Projects"] = @ \cup {new_proj},
              !["Last Used"] = IF StrGreater(last_used, @) THEN last_used ELSE @]

ConflictEntry(mpn, existing, new_part) ==
  [kind |-> "CONFLICT", mpn |-> mpn,
   master |-> <<existing["Value"], existing["Footprint"]>>,
   new |-> <<new_part["Value"], new_part["Footprint"]>>]

\* A conflict branch that still records the project on the existing record.
ConflictPartial(st, mpn, existing, new_part, new_proj) ==
  [st EXCEPT
     !.master = [@ EXCEPT ![mpn] =
                   AddProject(existing, new_proj, new_part["Last Used"])],
     !.errors = Append(@, ConflictEntry(mpn, existing, new_part))]

\* The conflict branch: errors.append(...); continue
Conflict(st, mpn, existing, new_part, new_proj) ==
  [st EXCEPT !.errors = Append(@, ConflictEntry(mpn, existing, new_part))]

\* The branch "if mpn in master_data" for one incoming record.
MergeExisting(st, mpn, existing, new_part, new_proj) ==
  IF SpecsDiffer(existing, new_part)
  THEN Conflict(st, mpn, existing, new_part, new_proj)
  ELSE IF new_proj \notin existing["Projects"]
  THEN [st EXCEPT
          !.master = [@ EXCEPT ![mpn] =
                        AddProject(UpdateFields(existing, new_part), new_proj,
                                   new_part["Last Used"])],
          !.changes = Append(@, [kind |-> "Added project", mpn |-> mpn,
                                 project |-> new_proj])]
  ELSE IF Updated(existing, new_part)
  THEN [st EXCEPT
          !.master = [@ EXCEPT ![mpn] = UpdateFields(existing, new_part)],
          !.changes = Append(@, [kind |-> "Filled missing data", mpn |-> mpn])]
  ELSE st

\* The body of "for mpn, new_part in new_data.items()"; item is the pair.
MergeOne(st, item) ==
  IF item.mpn \in DOMAIN st.master
  THEN MergeExisting(st, item.mpn, st.master[item.mpn], item.part,
                     CHOOSE p \in item.part["Projects"] : TRUE)
  ELSE [st EXCEPT
          !.master = (item.mpn :> item.part) @@ @,
          !.changes = Append(@, [kind |-> "New Part", mpn |-> item.mpn,
                                 type |-> item.part["Type"],
                                 value |-> item.part["Value"]])]

RECURSIVE MergeItems(_, _)
MergeItems(st, items) ==
  IF Len(items) = 0 THEN st ELSE MergeItems(MergeOne(st, items[1]), Tail(items))

\* merge_data(master_data, new_data): the inventory afterwards and the two
\* logs returned.
merge_data(master, items) ==
  MergeItems([master |-> master, changes |-> << >>, errors |-> << >>], items)

-----------------------------------------------------------------------------
(* The inventory under merge.                                              *)

Str_4p7k == <<"4", ".", "7", "k">>
Str_10k  == <<"1", "0", "k">>

\* The non-key columns a record can come with: each leaves some blank.
Templates ==
  { ("Mouser PN" :> <<"M", "1">>) @@ ("Digikey PN" :> EmptyStr)
      @@ ("Voltage" :> <<"1", "6", "V">>) @@ ("Tolerance" :> EmptyStr)
      @@ ("Manufacturer" :> <<"Y">>) @@ ("Datasheet" :> EmptyStr)
      @@ ("Extra" :> EmptyStr) @@ ("Description" :> <<"d", "1">>)
      @@ ("Symbol" :> <<"D", ":", "R">>),
    ("Mouser PN" :> <<"M", "2">>) @@ ("Digikey PN" :> <<"D", "K">>)
      @@ ("Voltage" :> EmptyStr) @@ ("Tolerance" :> <<"1", "%">>)
      @@ ("Manufacturer" :> EmptyStr) @@ ("Datasheet" :> <<"d", "s">>)
      @@ ("Extra" :> <<"x">>) @@ ("Description" :> <<"d", "2">>)
      @@ ("Symbol" :> EmptyStr) }

\* Value and footprint of a record.
PartSpecs == { <<Str_4p7k, FP0402>>, <<Str_10k, FP0402>>, <<Str_4p7k, FP0603>> }

Record(mpn, spec, tmpl, stock, projects, last_used) ==
  [f \in RecordFields |->
     CASE f = "Type"      -> <<"R">>
       [] f = "Value"     -> spec[1]
       [] f = "Footprint" -> spec[2]
       [] f = "Stock"     -> stock
       [] f = "MPN"       -> mpn
       [] f = "Projects"  -> projects
       [] f = "Last Used" -> last_used
       [] OTHER           -> tmpl[f]]

\* What one project scan can hand to merge: the project, the date its
\* records carry, and the records in the order of the dictionary.
ScanStamps ==
  { <<"amp", DayStrings[1]>>, <<"psu", DayStrings[2]>>, <<"psu", DayStrings[1]>> }

ScannedPart(mpn, spec, tmpl, stamp) ==
  [mpn |-> mpn, part |-> Record(mpn, spec, tmpl, EmptyStr, {stamp[1]}, stamp[2])]

IncomingSets ==
  {<<ScannedPart(m, sp, t, st)>> :
      m \in {X1, X2}, sp \in PartSpecs, t \in Templates, st \in ScanStamps}
  \cup
  {<<ScannedPart(X1, sp, t, st), ScannedPart(X2, <<Str_10k, FP0402>>, t, st)>> :
      sp \in {<<Str_4p7k, FP0402>>, <<Str_10k, FP0402>>}, t \in Templates,
      st \in {<<"psu", DayStrings[2]>>}}

\* Inventories as load_master_csv can return them: none, one row edited by
\* hand (a stock count), and two rows of which one has no project or date.
LoadedTemplate ==
  ("Mouser PN" :> <<"M", "0">>) @@ ("Digikey PN" :> EmptyStr)
    @@ ("Voltage" :> EmptyStr) @@ ("Tolerance" :> EmptyStr)
    @@ ("Manufacturer" :> EmptyStr) @@ ("Datasheet" :> EmptyStr)
    @@ ("Extra" :> <<"x", "0">>) @@ ("Description" :> <<"d", "0">>)
    @@ ("Symbol" :> EmptyStr)

LoadedInventories ==
  { << >>,
    (X1 :> Record(X1, <<Str_4p7k, FP0402>>, LoadedTemplate, <<"1", "2">>,
                  {"amp"}, DayStrings[1])),
    (X1 :> Record(X1, <<Str_10k, FP0402>>, LoadedTemplate, <<"5">>, {},
                  EmptyStr))
      @@ (X2 :> Record(X2, <<Str_10k, FP0402>>, LoadedTemplate, EmptyStr,
                       {"psu"}, DayStrings[2])) }

InitMerge ==
  /\ pc = "loaded"
  /\ master_data \in LoadedInventories
  /\ new_data = << >>
  /\ changes = << >>
  /\ errors = << >>
  /\ runs = 0
  /\ IdleBlock /\ IdleValue /\ IdleScan

\* changes, errors = merge_data(master_data, new_data) for a fresh scan.
Merge ==
  /\ pc \in {"loaded", "merged", "remerged"}
  /\ runs < MaxRuns
  /\ \E items \in IncomingSets :
       /\ new_data' = items
       /\ \E res \in {merge_data(master_data, items)} :
            /\ master_data' = res.master
            /\ changes' = res.changes
            /\ errors' = res.errors
  /\ runs' = runs + 1
  /\ pc' = "merged"
  /\ UNCHANGED <<blockVars, valueVars, scanVars>>

\* The same incoming records merged once more.
MergeAgain ==
  /\ pc = "merged"
  /\ \E res \in {merge_data(master_data, new_data)} :
       /\ master_data' = res.master
       /\ changes' = res.changes
       /\ errors' = res.errors
  /\ pc' = "remerged"
  /\ UNCHANGED <<new_data, runs, blockVars, valueVars, scanVars>>

NextMerge == Merge \/ MergeAgain

SpecMerge == InitMerge /\ [][NextMerge]_vars

-----------------------------------------------------------------------------
(* Properties of merge_data.  A step that ends in "merged" or "remerged"   *)
(* is one call merge_data(master_data, new_data'): the unprimed inventory  *)
(* is the one before the call, the primed one and the logs are its result. *)

MergeCall == pc' \in {"merged", "remerged"}

\* How many entries of a log are about an MPN.
EntriesFor(log, mpn) == Cardinality({i \in 1..Len(log) : log[i].mpn = mpn})

\* The incoming record is for an MPN the inventory holds already.
Held(item) == item.mpn \in DOMAIN master_data

SameSpecs(item) ==
  /\ master_data[item.mpn]["Value"] = item.part["Value"]
  /\ master_data[item.mpn]["Footprint"] = item.part["Footprint"]

\* C1: an incoming record whose MPN is in the inventory with another Value
\* or Footprint gets exactly one entry in the conflict log and none in the
\* change log, and the existing record keeps every field, Projects and Last
\* Used included.
C1_ConflictLeavesRecord ==
  [][MergeCall =>
       \A i \in 1..Len(new_data') :
         (Held(new_data'[i]) /\ ~SameSpecs(new_data'[i])) =>
           /\ EntriesFor(errors', new_data'[i].mpn) = 1
           /\ EntriesFor(changes', new_data'[i].mpn) = 0
           /\ master_data'[new_data'[i].mpn] = master_data[new_data'[i].mpn]]_vars

\* A conflicting scan of project psu was merged: one conflict is logged,
\* nothing else, and the record knows neither the project nor the new value.
C1_Witness ==
  /\ pc = "merged" /\ runs = 1
  /\ Len(errors) = 1 /\ errors[1].mpn = X1 /\ changes = << >>
  /\ new_data[1].part["Projects"] = {"psu"}
  /\ new_data[1].part["Value"] = Str_10k
  /\ master_data[X1]["Value"] = Str_4p7k
  /\ master_data[X1]["Projects"] = {"amp"}

\* Every record is stored under its own MPN, so no two records share one.
MPNUnique == \A k \in DOMAIN master_data : master_data[k]["MPN"] = k

C2_Step ==
  MergeCall =>
    \A i \in 1..Len(new_data') :
      LET item == new_data'[i]
          proj == Only(item.part["Projects"])
      IN (Held(item) /\ SameSpecs(item)
            /\ proj \notin master_data[item.mpn]["Projects"]) =>
           /\ master_data'[item.mpn]["Projects"]
                = master_data[item.mpn]["Projects"] \cup {proj}
           /\ DOMAIN master_data'
                = DOMAIN master_data
                    \cup {new_data'[j].mpn : j \in 1..Len(new_data')}
           /\ EntriesFor(changes', item.mpn) = 1
           /\ \E n \in 1..Len(changes') :
                /\ changes'[n].kind = "Added project"
                /\ changes'[n].mpn = item.mpn
                /\ changes'[n].project = proj

\* C2: an incoming record whose MPN is in the inventory with the same Value
\* and Footprint and whose project is new to the record adds the project to
\* its Projects, adds no key for this MPN, and logs one project addition;
\* and at no time do two records of the inventory have the same MPN.
C2_ProjectAdded == [](MPNUnique) /\ [][C2_Step]_vars

\* Project psu was added to the record the inventory was loaded with.
C2_Witness ==
  /\ pc = "merged" /\ runs = 1
  /\ DOMAIN master_data = {X1}
  /\ master_data[X1]["Projects"] = {"amp", "psu"}
  /\ Len(changes) = 1 /\ changes[1].kind = "Added project"
  /\ changes[1].project = "psu"

StickyFields ==
  {"Mouser PN", "Digikey PN", "Voltage", "Tolerance", "Manufacturer",
   "Datasheet", "Extra"}

\* C3: merge never changes the Stock of a record the inventory holds, never
\* changes a non-empty Mouser PN, Digikey PN, Voltage, Tolerance,
\* Manufacturer, Datasheet or Extra, and changes an empty one only to the
\* non-empty value of an incoming record with the same Value and Footprint.
C3_StickyFields ==
  [][MergeCall =>
       \A k \in DOMAIN master_data :
         /\ master_data'[k]["Stock"] = master_data[k]["Stock"]
         /\ \A f \in StickyFields :
              master_data'[k][f] # master_data[k][f] =>
                /\ master_data[k][f] = EmptyStr
                /\ \E i \in 1..Len(new_data') :
                     /\ new_data'[i].mpn = k
                     /\ SameSpecs(new_data'[i])
                     /\ new_data'[i].part[f] # EmptyStr
                     /\ master_data'[k][f] = new_data'[i].part[f]]_vars

\* The loaded record took the Voltage it lacked from a scan, and kept its
\* stock count and its Mouser PN although the scan had another one.
C3_Witness ==
  /\ pc = "merged" /\ runs = 1
  /\ X1 \in DOMAIN master_data
  /\ master_data[X1]["Stock"] = <<"1", "2">>
  /\ master_data[X1]["Voltage"] = <<"1", "6", "V">>
  /\ master_data[X1]["Mouser PN"] = <<"M", "0">>
  /\ new_data[1].mpn = X1
  /\ new_data[1].part["Mouser PN"] = <<"M", "1">>

\* C9: merging the same incoming records a second time returns an empty
\* change log and leaves every record as the first merge left it; the
\* conflict log is the one of the first merge, and each of its entries is
\* for an MPN whose Value or Footprint differs.
C9_MergeIdempotent ==
  [][pc' = "remerged" =>
       /\ changes' = << >>
       /\ master_data' = master_data
       /\ errors' = errors
       /\ \A n \in 1..Len(errors') :
            \E i \in 1..Len(new_data') :
              /\ new_data'[i].mpn = errors'[n].mpn
              /\ Held(new_data'[i]) /\ ~SameSpecs(new_data'[i])]_vars

\* Two records were merged twice: the first merge filled the Voltage of X2,
\* the second reports the conflict of X1 again and nothing else.
C9_Witness ==
  /\ pc = "remerged"
  /\ Len(new_data) = 2
  /\ changes = << >>
  /\ Len(errors) = 1 /\ errors[1].mpn = X1
  /\ master_data[X2]["Voltage"] # EmptyStr
  /\ master_data[X2]["Voltage"] = new_data[2].part["Voltage"]
  /\ master_data[X2]["Mouser PN"] # new_data[2].part["Mouser PN"]

====
